---- MODULE Spec2Model ----
(***************************************************************************)
(* A model of the Raft simulation of SD/Scripts/distributed_systems.py:    *)
(* the RaftNode state machine and the RaftCluster coordinator, as wired by *)
(* demo_raft_consensus (every node's send_message is the coordinator's     *)
(* send_message, so a sent message is appended to the coordinator's        *)
(* message_queue).  Python list indices are kept 0-based in the fields     *)
(* (LogEntry.index, prev_log_index, next_index, commit_index); the TLA+    *)
(* sequence log holds Python's log[i] at position i + 1.  Wall-clock time  *)
(* is not modelled: an election timeout may expire at any step at which    *)
(* the node loop would test it.                                            *)
(***************************************************************************)
EXTENDS Integers, Sequences, FiniteSets, TLC

\* Bounds of the model.
MaxTerm == 2
MaxCommands == 2
MaxBroadcasts == 2
MaxFaults == 1
MaxContenders == 3

None == "None"
\* the commands the driver issues, in order (short names for the demo's four)
Commands == <<"X", "Y", "Z", "W">>
\* the number of commands the demo appends before it injects faults
DemoCommands == 3
Cluster2 == <<"node1", "node2">>
Cluster3 == <<"node1", "node2", "node3">>
Cluster5 == <<"node1", "node2", "node3", "node4", "node5">>

VARIABLES
    cluster_nodes,        \* the node_ids list given to RaftCluster, in order
    nodes,                \* RaftCluster.nodes: node id -> the RaftNode's fields
    message_queue,        \* RaftCluster.message_queue
    messages_to_process,  \* the rest of the batch _process_messages is iterating over
    running,              \* RaftCluster.running
    fault_calls,          \* the driver's fail_node and partition_nodes(.., True) calls so far
    commands_accepted,    \* the driver's append_command calls that returned True so far
    elected,              \* history: <<node, term>> of every become_leader
    votes_cast,           \* history: <<voter, term, candidate>> of every granted vote
    in_progress           \* thread -> the call it is in the middle of, and on which node

vars == <<cluster_nodes, nodes, message_queue, messages_to_process, running,
          fault_calls, commands_accepted, elected, votes_cast, in_progress>>

----------------------------------------------------------------------------
\* Helpers

Min(a, b) == IF a < b THEN a ELSE b

EmptyDict == [k \in {} |-> 0]

DictGet(d, k, default) == IF k \in DOMAIN d THEN d[k] ELSE default

NodeSet == {cluster_nodes[i] : i \in 1..Len(cluster_nodes)}

\* the other nodes, in the order of "for node in self.cluster_nodes"
Peers(id) == SelectSeq(cluster_nodes, LAMBDA x : x # id)

PeerSet(id) == NodeSet \ {id}

LastLogIndex(log) == IF Len(log) > 0 THEN Len(log) - 1 ELSE -1

LastLogTerm(log) == IF Len(log) > 0 THEN log[Len(log)].term ELSE 0

Message(type, from, to, term, data) ==
    [type |-> type, from_node |-> from, to_node |-> to, term |-> term, data |-> data]

NewNode(id) ==
    [node_id |-> id,
     state |-> "follower",
     current_term |-> 0,
     voted_for |-> None,
     log |-> <<>>,
     commit_index |-> 0,
     last_applied |-> 0,
     next_index |-> EmptyDict,
     match_index |-> EmptyDict,
     votes_received |-> {},
     is_failed |-> FALSE,
     network_partition |-> FALSE]

----------------------------------------------------------------------------
\* RaftNode.start_election

\* mutant: the candidate does not vote for itself
StartElectionNodeNoSelfVote(node) ==
    IF node.is_failed THEN node
    ELSE [node EXCEPT !.state = "candidate",
                      !.current_term = @ + 1,
                      !.votes_received = {node.node_id}]

StartElectionNode(node) ==
    IF node.is_failed THEN node
    ELSE [node EXCEPT !.state = "candidate",
                      !.current_term = @ + 1,
                      !.voted_for = node.node_id,
                      !.votes_received = {node.node_id}]

\* the vote requests of a node that has just become a candidate
VoteRequests(node) ==
    IF node.is_failed THEN <<>>
    ELSE LET peers == Peers(node.node_id)
         IN [i \in 1..Len(peers) |->
                Message("vote_request", node.node_id, peers[i], node.current_term,
                        [last_log_index |-> LastLogIndex(node.log),
                         last_log_term |-> LastLogTerm(node.log)])]

----------------------------------------------------------------------------
\* RaftNode.handle_vote_request

\* mutant: the higher term is adopted and the vote cleared, the role is kept
AdoptHigherTermKeepsRole(node, m) ==
    IF m.term > node.current_term
    THEN [node EXCEPT !.current_term = m.term, !.voted_for = None]
    ELSE node

\* mutant: the higher term is adopted, the vote of the older term is kept
AdoptHigherTermKeepsVote(node, m) ==
    IF m.term > node.current_term
    THEN [node EXCEPT !.current_term = m.term, !.state = "follower"]
    ELSE node

AdoptHigherTerm(node, m) ==
    IF m.term > node.current_term
    THEN [node EXCEPT !.current_term = m.term, !.voted_for = None, !.state = "follower"]
    ELSE node

CanVote(node, m) ==
    /\ m.term >= node.current_term
    /\ (node.voted_for = None \/ node.voted_for = m.from_node)

VoteGranted(node, m) == ~node.is_failed /\ CanVote(AdoptHigherTerm(node, m), m)

HandleVoteRequestNode(node, m) ==
    IF node.is_failed THEN node
    ELSE LET n1 == AdoptHigherTerm(node, m)
         IN IF CanVote(n1, m) THEN [n1 EXCEPT !.voted_for = m.from_node] ELSE n1

HandleVoteRequestMsgs(node, m) ==
    IF VoteGranted(node, m)
    THEN <<Message("vote_response", node.node_id, m.from_node,
                   AdoptHigherTerm(node, m).current_term, [vote_granted |-> TRUE])>>
    ELSE <<>>

----------------------------------------------------------------------------
\* RaftNode.send_heartbeat, become_leader, handle_vote_response

HeartbeatMsgs(node) ==
    IF node.state # "leader" \/ node.is_failed THEN <<>>
    ELSE LET peers == Peers(node.node_id)
         IN [i \in 1..Len(peers) |->
                Message("append_entries", node.node_id, peers[i], node.current_term,
                        [prev_log_index |-> LastLogIndex(node.log),
                         prev_log_term |-> LastLogTerm(node.log),
                         entries |-> <<>>,
                         leader_commit |-> node.commit_index])]

BecomeLeader(node) ==
    [node EXCEPT !.state = "leader",
                 !.next_index = [p \in PeerSet(node.node_id) |-> Len(node.log)],
                 !.match_index = [p \in PeerSet(node.node_id) |-> -1]]

\* mutant: the response's term is not compared with the receiver's term
IgnoresVoteResponseAnyTerm(node, m) ==
    node.state # "candidate" \/ node.is_failed

IgnoresVoteResponse(node, m) ==
    node.state # "candidate" \/ m.term # node.current_term \/ node.is_failed

\* mutant: the candidate waits for the vote of every node of the cluster
WonElectionUnanimous(votes) == Cardinality(votes) = Len(cluster_nodes)

WonElection(votes) == Cardinality(votes) > Len(cluster_nodes) \div 2

HandleVoteResponseNode(node, m) ==
    IF IgnoresVoteResponse(node, m) THEN node
    ELSE IF m.data.vote_granted
         THEN LET n1 == [node EXCEPT !.votes_received = @ \cup {m.from_node}]
              IN IF WonElection(n1.votes_received) THEN BecomeLeader(n1) ELSE n1
         ELSE node

\* whether handling m makes the node run become_leader
BecomesLeader(node, m) ==
    /\ ~IgnoresVoteResponse(node, m)
    /\ m.data.vote_granted
    /\ WonElection(node.votes_received \cup {m.from_node})

HandleVoteResponseMsgs(node, m) ==
    IF BecomesLeader(node, m) THEN HeartbeatMsgs(HandleVoteResponseNode(node, m)) ELSE <<>>

----------------------------------------------------------------------------
\* RaftNode.append_entry, replicate_log

\* mutant: append_entry tests is_failed only, not the role
AppendEntryReturnsIfUp(node) == ~node.is_failed

AppendEntryReturns(node) == ~(node.state # "leader" \/ node.is_failed)

\* mutant: the Leader marks the entry committed as soon as it has appended it
AppendEntryNodeCommits(node, command) ==
    IF AppendEntryReturns(node)
    THEN [node EXCEPT !.log = Append(@, [term |-> node.current_term,
                                         index |-> Len(node.log),
                                         command |-> command]),
                      !.commit_index = Len(node.log)]
    ELSE node

AppendEntryNode(node, command) ==
    IF AppendEntryReturns(node)
    THEN [node EXCEPT !.log = Append(@, [term |-> node.current_term,
                                         index |-> Len(node.log),
                                         command |-> command])]
    ELSE node

ReplicateLogMsgs(node) ==
    IF node.state # "leader" THEN <<>>
    ELSE LET peers == Peers(node.node_id)
         IN [i \in 1..Len(peers) |->
                LET next_idx == DictGet(node.next_index, peers[i], 0)
                IN Message("append_entries", node.node_id, peers[i], node.current_term,
                           [prev_log_index |-> next_idx - 1,
                            prev_log_term |-> IF next_idx > 0 THEN node.log[next_idx].term
                                              ELSE 0,
                            entries |-> IF next_idx < Len(node.log)
                                        THEN SubSeq(node.log, next_idx + 1, Len(node.log))
                                        ELSE <<>>,
                            leader_commit |-> node.commit_index])]

----------------------------------------------------------------------------
\* RaftNode.handle_append_entries

\* mutant: handle_append_entries takes the sender's term whatever it is
AcceptTermAlways(node, m) ==
    [node EXCEPT !.current_term = m.term, !.state = "follower", !.voted_for = None]

\* mutant: the sender's term is taken and the vote cleared, the role is kept
AcceptTermKeepsRole(node, m) ==
    IF m.term >= node.current_term
    THEN [node EXCEPT !.current_term = m.term, !.voted_for = None]
    ELSE node

AcceptTerm(node, m) ==
    IF m.term >= node.current_term
    THEN [node EXCEPT !.current_term = m.term, !.state = "follower", !.voted_for = None]
    ELSE node

LogConsistent(log, prev_log_index, prev_log_term) ==
    ~(/\ prev_log_index >= 0
      /\ (\/ Len(log) <= prev_log_index
          \/ log[prev_log_index + 1].term # prev_log_term))

\* mutant: the term of the message is not compared with the receiver's term
AppendEntriesReturnsAnyTerm(node, m) ==
    /\ ~node.is_failed
    /\ LogConsistent(node.log, m.data.prev_log_index, m.data.prev_log_term)

AppendEntriesReturns(node, m) ==
    /\ ~node.is_failed
    /\ ~(m.term < node.current_term)
    /\ LogConsistent(node.log, m.data.prev_log_index, m.data.prev_log_term)

\* mutant: the new entries are appended without cutting the log at prev_log_index
InstallEntriesNoTruncate(log, prev_log_index, entries) ==
    IF Len(entries) > 0 THEN log \o entries ELSE log

\* mutant: the log is cut at prev_log_index rather than after it
InstallEntriesFromPrev(log, prev_log_index, entries) ==
    IF Len(entries) > 0 THEN SubSeq(log, 1, prev_log_index) \o entries ELSE log

InstallEntries(log, prev_log_index, entries) ==
    IF Len(entries) > 0 THEN SubSeq(log, 1, prev_log_index + 1) \o entries ELSE log

\* mutant: the "leader_commit > self.commit_index" test is left out
UpdateCommitIndexUnguarded(commit_index, leader_commit, log_len) ==
    Min(leader_commit, log_len - 1)

UpdateCommitIndex(commit_index, leader_commit, log_len) ==
    IF leader_commit > commit_index THEN Min(leader_commit, log_len - 1) ELSE commit_index

\* mutant: the entries are installed before the tests of the term and of the log
HandleAppendEntriesNodeUnchecked(node, m) ==
    IF node.is_failed THEN node
    ELSE LET n1 == AcceptTerm(node, m)
             log2 == InstallEntries(n1.log, Min(m.data.prev_log_index, Len(n1.log) - 1),
                                    m.data.entries)
         IN [n1 EXCEPT !.log = log2,
                       !.commit_index = IF AppendEntriesReturns(node, m)
                                        THEN UpdateCommitIndex(@, m.data.leader_commit,
                                                               Len(log2))
                                        ELSE @]

HandleAppendEntriesNode(node, m) ==
    IF node.is_failed THEN node
    ELSE LET n1 == AcceptTerm(node, m)
         IN IF ~AppendEntriesReturns(node, m) THEN n1
            ELSE LET log2 == InstallEntries(n1.log, m.data.prev_log_index, m.data.entries)
                 IN [n1 EXCEPT !.log = log2,
                               !.commit_index = UpdateCommitIndex(@, m.data.leader_commit,
                                                                  Len(log2))]

----------------------------------------------------------------------------
\* RaftNode.fail_node, recover_node, partition_node

FailNodeNode(node) == [node EXCEPT !.is_failed = TRUE, !.state = "failed"]

RecoverNodeNode(node) == [node EXCEPT !.is_failed = FALSE, !.state = "follower"]

PartitionNodeNode(node, partitioned) == [node EXCEPT !.network_partition = partitioned]

----------------------------------------------------------------------------
\* RaftCluster

\* mutant: get_leader tests the role only, not is_failed
GetLeaderIgnoresFailed ==
    LET at == {i \in 1..Len(cluster_nodes) : nodes[cluster_nodes[i]].state = "leader"}
    IN IF at = {} THEN None
       ELSE cluster_nodes[CHOOSE i \in at : \A j \in at : i <= j]

GetLeader ==
    LET at == {i \in 1..Len(cluster_nodes) :
                  /\ nodes[cluster_nodes[i]].state = "leader"
                  /\ ~nodes[cluster_nodes[i]].is_failed}
    IN IF at = {} THEN None
       ELSE cluster_nodes[CHOOSE i \in at : \A j \in at : i <= j]

AppendCommandReturns == GetLeader # None /\ AppendEntryReturns(nodes[GetLeader])

InFlight == Len(message_queue) + Len(messages_to_process)

\* the model lets a thread start a broadcast only while fewer than MaxBroadcasts
\* broadcasts' worth of messages are waiting
RoomToBroadcast ==
    InFlight + (Len(cluster_nodes) - 1) <= MaxBroadcasts * (Len(cluster_nodes) - 1)

\* the threads of a running cluster: the driver (the caller of the RaftCluster
\* methods), the message processor and one node loop for each node
Threads(node_ids) == {"driver", "processor"} \cup {node_ids[i] : i \in 1..Len(node_ids)}

\* a thread that is not in the middle of a call
Idle == [op |-> "idle", node |-> None]

InitCluster(node_ids) ==
    /\ cluster_nodes = node_ids
    /\ nodes = [id \in {node_ids[i] : i \in 1..Len(node_ids)} |-> NewNode(id)]
    /\ message_queue = <<>>
    /\ messages_to_process = <<>>
    /\ running = FALSE
    /\ fault_calls = 0
    /\ commands_accepted = 0
    /\ elected = {}
    /\ votes_cast = {}
    /\ in_progress = [t \in Threads(node_ids) |-> Idle]

Init == InitCluster(Cluster3)

\* the nodes the driver cuts off: the last floor(n/2) of the list, as the demo's
\* ["node4", "node5"] of five
MinoritySide ==
    {cluster_nodes[i] : i \in (Len(cluster_nodes) - Len(cluster_nodes) \div 2 + 1)..Len(cluster_nodes)}

\* RaftCluster.start
Start ==
    /\ ~running
    /\ running' = TRUE
    /\ UNCHANGED <<cluster_nodes, nodes, message_queue, messages_to_process,
                   fault_calls, commands_accepted, elected, votes_cast, in_progress>>

\* RaftCluster.stop
Stop ==
    /\ running
    /\ running' = FALSE
    /\ UNCHANGED <<cluster_nodes, nodes, message_queue, messages_to_process,
                   fault_calls, commands_accepted, elected, votes_cast, in_progress>>

\* _run_node: the election timeout of a follower or candidate has expired
ElectionTimeout(id) ==
    /\ running
    /\ ~nodes[id].is_failed
    /\ nodes[id].state \in {"follower", "candidate"}
    /\ nodes[id].current_term < MaxTerm
    /\ RoomToBroadcast
    /\ LET n1 == StartElectionNode(nodes[id])
       IN /\ nodes' = [nodes EXCEPT ![id] = n1]
          /\ message_queue' = message_queue \o VoteRequests(n1)
    /\ UNCHANGED <<cluster_nodes, messages_to_process, running, fault_calls,
                   commands_accepted, elected, votes_cast, in_progress>>

\* _run_node: a leader's periodic heartbeat
PeriodicHeartbeat(id) ==
    /\ running
    /\ ~nodes[id].is_failed
    /\ nodes[id].state = "leader"
    /\ RoomToBroadcast
    /\ message_queue' = message_queue \o HeartbeatMsgs(nodes[id])
    /\ UNCHANGED <<cluster_nodes, nodes, messages_to_process, running, fault_calls,
                   commands_accepted, elected, votes_cast, in_progress>>

\* _process_messages: copy and clear the queue
DrainQueue ==
    /\ running
    /\ messages_to_process = <<>>
    /\ message_queue # <<>>
    /\ messages_to_process' = message_queue
    /\ message_queue' = <<>>
    /\ UNCHANGED <<cluster_nodes, nodes, running, fault_calls, commands_accepted, elected, votes_cast, in_progress>>

\* what one iteration of "for message in messages_to_process" does to the batch,
\* the target node and the queue
DeliverEffects ==
    /\ messages_to_process # <<>>
    /\ LET m == Head(messages_to_process)
           target == nodes[m.to_node]
       IN /\ messages_to_process' = Tail(messages_to_process)
          /\ IF target.is_failed
             THEN UNCHANGED <<nodes, message_queue, elected, votes_cast>>
             ELSE CASE m.type = "vote_request" ->
                        /\ nodes' = [nodes EXCEPT ![m.to_node] = HandleVoteRequestNode(target, m)]
                        /\ message_queue' = message_queue \o HandleVoteRequestMsgs(target, m)
                        /\ votes_cast' = IF VoteGranted(target, m)
                                         THEN votes_cast \cup
                                              {<<m.to_node, nodes'[m.to_node].current_term,
                                                 m.from_node>>}
                                         ELSE votes_cast
                        /\ UNCHANGED elected
                    [] m.type = "vote_response" ->
                        /\ nodes' = [nodes EXCEPT ![m.to_node] = HandleVoteResponseNode(target, m)]
                        /\ message_queue' = message_queue \o HandleVoteResponseMsgs(target, m)
                        /\ elected' = IF BecomesLeader(target, m)
                                      THEN elected \cup {<<m.to_node, target.current_term>>}
                                      ELSE elected
                        /\ UNCHANGED votes_cast
                    [] m.type = "append_entries" ->
                        /\ nodes' = [nodes EXCEPT ![m.to_node] = HandleAppendEntriesNode(target, m)]
                        /\ UNCHANGED <<message_queue, elected, votes_cast>>
    /\ UNCHANGED <<cluster_nodes, running, fault_calls, commands_accepted>>

\* _process_messages: one iteration of "for message in messages_to_process"
DeliverMessage == DeliverEffects /\ UNCHANGED in_progress

\* RaftCluster.append_command, when get_leader finds a leader; the driver has
\* limit commands to issue
AppendCommandUpTo(limit) ==
    /\ GetLeader # None
    /\ commands_accepted < limit
    /\ RoomToBroadcast
    /\ LET n1 == AppendEntryNode(nodes[GetLeader], Commands[commands_accepted + 1])
       IN /\ nodes' = [nodes EXCEPT ![GetLeader] = n1]
          /\ message_queue' = message_queue \o ReplicateLogMsgs(n1)
    /\ commands_accepted' = commands_accepted + 1
    /\ UNCHANGED <<cluster_nodes, messages_to_process, running, fault_calls,
                   elected, votes_cast, in_progress>>

AppendCommand == AppendCommandUpTo(MaxCommands)

\* RaftCluster.fail_node (the driver fails a node that is up)
FailNode(id) ==
    /\ ~nodes[id].is_failed
    /\ fault_calls < MaxFaults
    /\ fault_calls' = fault_calls + 1
    /\ nodes' = [nodes EXCEPT ![id] = FailNodeNode(nodes[id])]
    /\ UNCHANGED <<cluster_nodes, message_queue, messages_to_process, running,
                   commands_accepted, elected, votes_cast, in_progress>>

\* RaftCluster.recover_node (the driver recovers a node it has failed)
RecoverNode(id) ==
    /\ nodes[id].is_failed
    /\ nodes' = [nodes EXCEPT ![id] = RecoverNodeNode(nodes[id])]
    /\ UNCHANGED <<cluster_nodes, message_queue, messages_to_process, running,
                   fault_calls, commands_accepted, elected, votes_cast, in_progress>>

\* RaftCluster.partition_nodes
PartitionNodes(node_ids, partitioned) ==
    /\ partitioned => fault_calls < MaxFaults
    /\ fault_calls' = IF partitioned THEN fault_calls + 1 ELSE fault_calls
    /\ nodes' = [id \in NodeSet |-> IF id \in node_ids
                                     THEN PartitionNodeNode(nodes[id], partitioned)
                                     ELSE nodes[id]]
    /\ UNCHANGED <<cluster_nodes, message_queue, messages_to_process, running,
                   commands_accepted, elected, votes_cast, in_progress>>

Next ==
    \/ Start
    \/ \E id \in NodeSet : ElectionTimeout(id)
    \/ \E id \in NodeSet : PeriodicHeartbeat(id)
    \/ DrainQueue
    \/ DeliverMessage
    \/ AppendCommand
    \/ \E id \in NodeSet : FailNode(id)
    \/ \E id \in NodeSet : RecoverNode(id)
    \/ \E partitioned \in BOOLEAN : PartitionNodes(MinoritySide, partitioned)

Spec == Init /\ [][Next]_vars

----------------------------------------------------------------------------
\* The demo's cluster of five (demo_raft_consensus) in four scenarios.

Init5 == InitCluster(Cluster5)

Nodes5 == {Cluster5[i] : i \in 1..Len(Cluster5)}

FailedNodes == {id \in NodeSet : nodes[id].is_failed}

\* the nodes that drew the short election timeouts: only their timers can run
\* out while a Leader is heard or an election is on its way
Contenders == {cluster_nodes[i] : i \in 1..Min(MaxContenders, Len(cluster_nodes))}

\* _run_node: the timer of a node that has heard nothing runs out: no Leader is
\* up to send heartbeats and no message is waiting
QuietTimeout(id) ==
    /\ GetLeader = None
    /\ InFlight = 0
    /\ ElectionTimeout(id)

\* the driver fails the current Leader (demo: cluster.fail_node(leader.node_id))
FailLeader ==
    /\ GetLeader # None
    /\ FailNode(GetLeader)

\* the driver fails a node of the minority side before the cluster is started
FailBeforeStart(id) ==
    /\ ~running
    /\ id \in MinoritySide
    /\ ~nodes[id].is_failed
    /\ fault_calls' = fault_calls + 1
    /\ nodes' = [nodes EXCEPT ![id] = FailNodeNode(nodes[id])]
    /\ UNCHANGED <<cluster_nodes, message_queue, messages_to_process, running,
                   commands_accepted, elected, votes_cast, in_progress>>

\* the driver fails nodes for good, from the end of the list, until a majority
\* of the cluster is down
FailMajority ==
    /\ running
    /\ Cardinality(FailedNodes) < Len(cluster_nodes) \div 2 + 1
    /\ LET id == cluster_nodes[Len(cluster_nodes) - Cardinality(FailedNodes)]
       IN /\ ~nodes[id].is_failed
          /\ nodes' = [nodes EXCEPT ![id] = FailNodeNode(nodes[id])]
    /\ fault_calls' = fault_calls + 1
    /\ UNCHANGED <<cluster_nodes, message_queue, messages_to_process, running,
                   commands_accepted, elected, votes_cast, in_progress>>

\* The message processor and every node loop run for ever: each keeps taking
\* its steps.
ThreadsRun ==
    /\ WF_vars(DrainQueue)
    /\ WF_vars(DeliverMessage)
    /\ \A id \in Nodes5 : WF_vars(PeriodicHeartbeat(id))

\* A cluster that hears no Leader does not stay silent: some timer runs out.
TimersRun == WF_vars(\E id \in Nodes5 : QuietTimeout(id))

\* No fault injected; the timers of the Contenders may run out at any time, none
\* of them is forced to.
NextBootstrap ==
    \/ Start
    \/ \E id \in Contenders : ElectionTimeout(id)
    \/ \E id \in NodeSet : PeriodicHeartbeat(id)
    \/ DrainQueue
    \/ DeliverMessage
    \/ AppendCommand

SpecBootstrap == Init5 /\ [][NextBootstrap]_vars /\ ThreadsRun

\* Two of the five nodes are failed before the start; timers run out one at a
\* time, when nothing is heard.
NextMinorityDown ==
    \/ \E id \in NodeSet : FailBeforeStart(id)
    \/ Start
    \/ \E id \in NodeSet : QuietTimeout(id)
    \/ \E id \in NodeSet : PeriodicHeartbeat(id)
    \/ DrainQueue
    \/ DeliverMessage
    \/ AppendCommand

SpecMinorityDown == Init5 /\ [][NextMinorityDown]_vars /\ ThreadsRun /\ TimersRun

\* Nodes are failed while the cluster runs until three of the five are down.
NextMajorityDown ==
    \/ Start
    \/ \E id \in Contenders : ElectionTimeout(id)
    \/ \E id \in NodeSet : PeriodicHeartbeat(id)
    \/ DrainQueue
    \/ DeliverMessage
    \/ AppendCommand
    \/ FailMajority

SpecMajorityDown == Init5 /\ [][NextMajorityDown]_vars

\* The Leader is failed; timers run out one at a time, when nothing is heard.
NextLeaderFails ==
    \/ Start
    \/ \E id \in NodeSet : QuietTimeout(id)
    \/ \E id \in NodeSet : PeriodicHeartbeat(id)
    \/ DrainQueue
    \/ DeliverMessage
    \/ AppendCommand
    \/ FailLeader

SpecLeaderFails == Init5 /\ [][NextLeaderFails]_vars /\ ThreadsRun /\ TimersRun

\* The minority side is partitioned away once a Leader of the other side is in
\* office, the demo's three commands are accepted on that side, and the
\* partition is removed.
Partitioned == \A id \in MinoritySide : nodes[id].network_partition

PartitionMinority ==
    /\ GetLeader # None
    /\ GetLeader \notin MinoritySide
    /\ commands_accepted = 0
    /\ ~Partitioned
    /\ PartitionNodes(MinoritySide, TRUE)

AppendOnMajority ==
    /\ Partitioned
    /\ GetLeader \notin MinoritySide
    /\ AppendCommandUpTo(DemoCommands)

HealPartition ==
    /\ Partitioned
    /\ commands_accepted = DemoCommands
    /\ PartitionNodes(MinoritySide, FALSE)

NextPartitionHealed ==
    \/ Start
    \/ \E id \in Contenders : ElectionTimeout(id)
    \/ \E id \in NodeSet : PeriodicHeartbeat(id)
    \/ DrainQueue
    \/ DeliverMessage
    \/ PartitionMinority
    \/ AppendOnMajority
    \/ HealPartition

SpecPartitionHealed == Init5 /\ [][NextPartitionHealed]_vars /\ ThreadsRun

----------------------------------------------------------------------------
\* The same cluster with the calls taken apart where the code lets another
\* thread in.  The handlers and start_election run "with self.lock" of the
\* node; send_heartbeat, append_entry, fail_node and recover_node take no lock.
\* A call that tests is_failed (or its role) and then acts is two steps: the
\* test, and the rest of the body.

In(op, id) == [op |-> op, node |-> id]

\* no thread is inside "with self.lock" of the node
LockFree(id) ==
    \A t \in DOMAIN in_progress :
        ~(in_progress[t].node = id /\ in_progress[t].op \in {"handler", "start_election"})

Unfailed(node) == [node EXCEPT !.is_failed = FALSE]

\* the node as the rest of a handler's body computes it, without the tests
\* made on entry
HandlerResult(node, m) ==
    CASE m.type = "vote_request" -> HandleVoteRequestNode(Unfailed(node), m)
      [] m.type = "vote_response" ->
            HandleVoteResponseNode([node EXCEPT !.is_failed = FALSE, !.state = "candidate"], m)
      [] m.type = "append_entries" -> HandleAppendEntriesNode(Unfailed(node), m)

\* whether that body assigns self.state
HandlerWritesState(node, m) ==
    CASE m.type = "vote_request" -> m.term > node.current_term
      [] m.type = "vote_response" -> HandlerResult(node, m).state = "leader"
      [] m.type = "append_entries" -> m.term >= node.current_term

\* the fields the body leaves alone keep what the other threads wrote meanwhile
HandlerBody(node, m) ==
    [HandlerResult(node, m) EXCEPT
        !.is_failed = node.is_failed,
        !.state = IF HandlerWritesState(node, m) THEN HandlerResult(node, m).state
                  ELSE node.state]

HandlerMsgs(node, m) ==
    CASE m.type = "vote_request" -> HandleVoteRequestMsgs(Unfailed(node), m)
      [] m.type = "vote_response" ->
            IF HandlerResult(node, m).state = "leader"
            THEN HeartbeatMsgs(HandlerBody(node, m)) ELSE <<>>
      [] m.type = "append_entries" -> <<>>

\* the test a handler makes on entry; a message that fails it is dropped
HandlerReturnsAtOnce(node, m) ==
    IF m.type = "vote_response" THEN IgnoresVoteResponse(node, m) ELSE node.is_failed

\* _process_messages takes the next message of the batch and enters the handler
BeginHandle ==
    /\ in_progress["processor"] = Idle
    /\ messages_to_process # <<>>
    /\ LET m == Head(messages_to_process)
       IN IF nodes[m.to_node].is_failed \/ HandlerReturnsAtOnce(nodes[m.to_node], m)
          THEN /\ LockFree(m.to_node) \/ nodes[m.to_node].is_failed
               /\ messages_to_process' = Tail(messages_to_process)
               /\ UNCHANGED in_progress
          ELSE /\ LockFree(m.to_node)
               /\ in_progress' = [in_progress EXCEPT !["processor"] = In("handler", m.to_node)]
               /\ UNCHANGED messages_to_process
    /\ UNCHANGED <<cluster_nodes, nodes, message_queue, running, fault_calls,
                   commands_accepted, elected, votes_cast>>

\* the handler runs the rest of its body and returns
FinishHandle ==
    /\ in_progress["processor"].op = "handler"
    /\ LET m == Head(messages_to_process)
           target == nodes[m.to_node]
       IN /\ nodes' = [nodes EXCEPT ![m.to_node] = HandlerBody(target, m)]
          /\ message_queue' = message_queue \o HandlerMsgs(target, m)
          /\ votes_cast' = IF m.type = "vote_request" /\ VoteGranted(Unfailed(target), m)
                           THEN votes_cast \cup
                                {<<m.to_node, nodes'[m.to_node].current_term, m.from_node>>}
                           ELSE votes_cast
          /\ elected' = IF m.type = "vote_response" /\ HandlerResult(target, m).state = "leader"
                        THEN elected \cup {<<m.to_node, target.current_term>>}
                        ELSE elected
    /\ messages_to_process' = Tail(messages_to_process)
    /\ in_progress' = [in_progress EXCEPT !["processor"] = Idle]
    /\ UNCHANGED <<cluster_nodes, running, fault_calls, commands_accepted>>

\* _run_node finds the node up, Follower or Candidate, and its timer run out
TimeoutCheck(id) ==
    /\ running
    /\ in_progress[id] = Idle
    /\ ~nodes[id].is_failed
    /\ nodes[id].state \in {"follower", "candidate"}
    /\ nodes[id].current_term < MaxTerm
    /\ RoomToBroadcast
    /\ in_progress' = [in_progress EXCEPT ![id] = In("start_election_call", id)]
    /\ UNCHANGED <<cluster_nodes, nodes, message_queue, messages_to_process, running,
                   fault_calls, commands_accepted, elected, votes_cast>>

\* start_election takes the lock and tests is_failed
BeginStartElection(id) ==
    /\ in_progress[id].op = "start_election_call"
    /\ LockFree(id)
    /\ in_progress' = [in_progress EXCEPT ![id] = IF nodes[id].is_failed THEN Idle
                                                  ELSE In("start_election", id)]
    /\ UNCHANGED <<cluster_nodes, nodes, message_queue, messages_to_process, running,
                   fault_calls, commands_accepted, elected, votes_cast>>

\* start_election becomes Candidate and sends its vote requests
FinishStartElection(id) ==
    /\ in_progress[id].op = "start_election"
    /\ LET n1 == [StartElectionNode(Unfailed(nodes[id])) EXCEPT
                      !.is_failed = nodes[id].is_failed]
       IN /\ nodes' = [nodes EXCEPT ![id] = n1]
          /\ message_queue' = message_queue \o VoteRequests(Unfailed(n1))
    /\ in_progress' = [in_progress EXCEPT ![id] = Idle]
    /\ UNCHANGED <<cluster_nodes, messages_to_process, running, fault_calls,
                   commands_accepted, elected, votes_cast>>

\* _run_node finds the node Leader; send_heartbeat finds it Leader and up
HeartbeatCheck(id) ==
    /\ running
    /\ in_progress[id] = Idle
    /\ ~nodes[id].is_failed
    /\ nodes[id].state = "leader"
    /\ RoomToBroadcast
    /\ in_progress' = [in_progress EXCEPT ![id] = In("send_heartbeat", id)]
    /\ UNCHANGED <<cluster_nodes, nodes, message_queue, messages_to_process, running,
                   fault_calls, commands_accepted, elected, votes_cast>>

\* send_heartbeat sends to every peer
SendHeartbeat(id) ==
    /\ in_progress[id].op = "send_heartbeat"
    /\ message_queue' = message_queue \o
                            HeartbeatMsgs([nodes[id] EXCEPT !.is_failed = FALSE,
                                                            !.state = "leader"])
    /\ in_progress' = [in_progress EXCEPT ![id] = Idle]
    /\ UNCHANGED <<cluster_nodes, nodes, messages_to_process, running, fault_calls,
                   commands_accepted, elected, votes_cast>>

\* append_command calls get_leader and finds a Leader
GetLeaderCall ==
    /\ in_progress["driver"] = Idle
    /\ commands_accepted < MaxCommands
    /\ GetLeader # None
    /\ in_progress' = [in_progress EXCEPT !["driver"] = In("append_entry_call", GetLeader)]
    /\ UNCHANGED <<cluster_nodes, nodes, message_queue, messages_to_process, running,
                   fault_calls, commands_accepted, elected, votes_cast>>

\* append_entry tests the role and is_failed; False is returned if the test fails
AppendEntryCheck ==
    /\ in_progress["driver"].op = "append_entry_call"
    /\ in_progress' = [in_progress EXCEPT !["driver"] =
                           IF AppendEntryReturns(nodes[in_progress["driver"].node])
                           THEN In("append_entry", in_progress["driver"].node)
                           ELSE Idle]
    /\ UNCHANGED <<cluster_nodes, nodes, message_queue, messages_to_process, running,
                   fault_calls, commands_accepted, elected, votes_cast>>

\* append_entry appends the entry and calls replicate_log
AppendEntryFinish ==
    /\ in_progress["driver"].op = "append_entry"
    /\ RoomToBroadcast
    /\ LET id == in_progress["driver"].node
           n1 == [nodes[id] EXCEPT !.log = Append(@, [term |-> nodes[id].current_term,
                                                      index |-> Len(nodes[id].log),
                                                      command |-> Commands[commands_accepted + 1]])]
       IN /\ nodes' = [nodes EXCEPT ![id] = n1]
          /\ message_queue' = message_queue \o ReplicateLogMsgs(n1)
    /\ commands_accepted' = commands_accepted + 1
    /\ in_progress' = [in_progress EXCEPT !["driver"] = Idle]
    /\ UNCHANGED <<cluster_nodes, messages_to_process, running, fault_calls,
                   elected, votes_cast>>

\* fail_node: self.is_failed = True
FailNodeBegin(id) ==
    /\ in_progress["driver"] = Idle
    /\ ~nodes[id].is_failed
    /\ fault_calls < MaxFaults
    /\ fault_calls' = fault_calls + 1
    /\ nodes' = [nodes EXCEPT ![id].is_failed = TRUE]
    /\ in_progress' = [in_progress EXCEPT !["driver"] = In("fail_node", id)]
    /\ UNCHANGED <<cluster_nodes, message_queue, messages_to_process, running,
                   commands_accepted, elected, votes_cast>>

\* fail_node: self.state = NodeState.FAILED
FailNodeFinish ==
    /\ in_progress["driver"].op = "fail_node"
    /\ nodes' = [nodes EXCEPT ![in_progress["driver"].node].state = "failed"]
    /\ in_progress' = [in_progress EXCEPT !["driver"] = Idle]
    /\ UNCHANGED <<cluster_nodes, message_queue, messages_to_process, running,
                   fault_calls, commands_accepted, elected, votes_cast>>

\* recover_node: self.is_failed = False
RecoverNodeBegin(id) ==
    /\ in_progress["driver"] = Idle
    /\ nodes[id].is_failed
    /\ nodes' = [nodes EXCEPT ![id].is_failed = FALSE]
    /\ in_progress' = [in_progress EXCEPT !["driver"] = In("recover_node", id)]
    /\ UNCHANGED <<cluster_nodes, message_queue, messages_to_process, running,
                   fault_calls, commands_accepted, elected, votes_cast>>

\* recover_node: self.state = NodeState.FOLLOWER
RecoverNodeFinish ==
    /\ in_progress["driver"].op = "recover_node"
    /\ nodes' = [nodes EXCEPT ![in_progress["driver"].node].state = "follower"]
    /\ in_progress' = [in_progress EXCEPT !["driver"] = Idle]
    /\ UNCHANGED <<cluster_nodes, message_queue, messages_to_process, running,
                   fault_calls, commands_accepted, elected, votes_cast>>

\* a cluster of two, the smallest in which a vote is asked for
Init2 == InitCluster(Cluster2)

NextInterleaved ==
    \/ Start
    \/ DrainQueue
    \/ BeginHandle
    \/ FinishHandle
    \/ \E id \in NodeSet : TimeoutCheck(id)
    \/ \E id \in NodeSet : BeginStartElection(id)
    \/ \E id \in NodeSet : FinishStartElection(id)
    \/ \E id \in NodeSet : HeartbeatCheck(id)
    \/ \E id \in NodeSet : SendHeartbeat(id)
    \/ GetLeaderCall
    \/ AppendEntryCheck
    \/ AppendEntryFinish
    \/ \E id \in NodeSet : FailNodeBegin(id)
    \/ FailNodeFinish
    \/ \E id \in NodeSet : RecoverNodeBegin(id)
    \/ RecoverNodeFinish

SpecInterleaved == Init2 /\ [][NextInterleaved]_vars

----------------------------------------------------------------------------
\* append_entry with the construction of the entry and the append to the log
\* taken apart, in a cluster of three whose other operations are single steps

\* append_entry: entry = LogEntry(term=self.current_term, index=len(self.log), ...)
NewLogEntry ==
    /\ in_progress["driver"].op = "append_entry"
    /\ LET id == in_progress["driver"].node
       IN in_progress' = [in_progress EXCEPT !["driver"] =
              [op |-> "log_append", node |-> id,
               entry |-> [term |-> nodes[id].current_term,
                          index |-> Len(nodes[id].log),
                          command |-> Commands[commands_accepted + 1]]]]
    /\ UNCHANGED <<cluster_nodes, nodes, message_queue, messages_to_process, running,
                   fault_calls, commands_accepted, elected, votes_cast>>

\* append_entry: self.log.append(entry), then replicate_log
LogAppend ==
    /\ in_progress["driver"].op = "log_append"
    /\ RoomToBroadcast
    /\ LET id == in_progress["driver"].node
           n1 == [nodes[id] EXCEPT !.log = Append(@, in_progress["driver"].entry)]
       IN /\ nodes' = [nodes EXCEPT ![id] = n1]
          /\ message_queue' = message_queue \o ReplicateLogMsgs(n1)
    /\ commands_accepted' = commands_accepted + 1
    /\ in_progress' = [in_progress EXCEPT !["driver"] = Idle]
    /\ UNCHANGED <<cluster_nodes, messages_to_process, running, fault_calls,
                   elected, votes_cast>>

\* the driver, between two calls of append_command, fails a node
FailNodeCall(id) == in_progress["driver"] = Idle /\ FailNode(id)

\* the driver, between two calls of append_command, recovers a node
RecoverNodeCall(id) == in_progress["driver"] = Idle /\ RecoverNode(id)

NextAppendRace ==
    \/ Start
    \/ \E id \in NodeSet : ElectionTimeout(id)
    \/ \E id \in NodeSet : PeriodicHeartbeat(id)
    \/ DrainQueue
    \/ DeliverMessage
    \/ GetLeaderCall
    \/ AppendEntryCheck
    \/ NewLogEntry
    \/ LogAppend
    \/ \E id \in NodeSet : FailNodeCall(id)
    \/ \E id \in NodeSet : RecoverNodeCall(id)

SpecAppendRace == Init /\ [][NextAppendRace]_vars

----------------------------------------------------------------------------
\* A follower is failed while the Leader accepts commands, and is recovered

\* the driver fails a node that is not the Leader
FailFollower(id) ==
    /\ GetLeader # None
    /\ id # GetLeader
    /\ FailNode(id)

NextCatchUp ==
    \/ Start
    \/ \E id \in NodeSet : QuietTimeout(id)
    \/ \E id \in NodeSet : PeriodicHeartbeat(id)
    \/ DrainQueue
    \/ DeliverMessage
    \/ AppendCommand
    \/ \E id \in NodeSet : FailFollower(id)
    \/ \E id \in NodeSet : RecoverNode(id)

SpecCatchUp == Init5 /\ [][NextCatchUp]_vars /\ ThreadsRun /\ TimersRun

----------------------------------------------------------------------------
\* The handlers under a transport that does not keep the order of the messages
\* (RaftNode leaves the delivery to whoever wires it, _deliver_message)

Without(seq, k) == [j \in 1..(Len(seq) - 1) |-> IF j < k THEN seq[j] ELSE seq[j + 1]]

\* an append_entries that is not the oldest of the batch is delivered first
DeliverOutOfOrder(k) ==
    /\ k \in 2..Len(messages_to_process)
    /\ messages_to_process[k].type = "append_entries"
    /\ ~nodes[messages_to_process[k].to_node].is_failed
    /\ nodes' = [nodes EXCEPT ![messages_to_process[k].to_node] =
                     HandleAppendEntriesNode(@, messages_to_process[k])]
    /\ messages_to_process' = Without(messages_to_process, k)
    /\ UNCHANGED <<cluster_nodes, message_queue, running, fault_calls, commands_accepted,
                   elected, votes_cast, in_progress>>

NextReordered ==
    \/ Start
    \/ \E id \in NodeSet : QuietTimeout(id)
    \/ \E id \in NodeSet : PeriodicHeartbeat(id)
    \/ DrainQueue
    \/ DeliverMessage
    \/ AppendCommand
    \/ \E k \in 1..(2 * Len(cluster_nodes)) : DeliverOutOfOrder(k)

SpecReordered == Init /\ [][NextReordered]_vars

----------------------------------------------------------------------------
\* The election timers.  The loop of a node is either before its deadline
\* (idle) or past it (timed_out: time.time() - last_heartbeat > election_timeout);
\* an assignment of last_heartbeat puts it before the deadline again.

\* the deadline of the node passes
TimerExpires(id) ==
    /\ running
    /\ in_progress[id] = Idle
    /\ ~nodes[id].is_failed
    /\ in_progress' = [in_progress EXCEPT ![id] = In("timed_out", id)]
    /\ UNCHANGED <<cluster_nodes, nodes, message_queue, messages_to_process, running,
                   fault_calls, commands_accepted, elected, votes_cast>>

\* _run_node finds the deadline passed and calls start_election, which does not
\* assign last_heartbeat
TimedOutElection(id) ==
    /\ in_progress[id].op = "timed_out"
    /\ ElectionTimeout(id)

\* whether handling the message assigns last_heartbeat
ResetsTimer(node, m) ==
    m.type = "append_entries" /\ ~node.is_failed /\ m.term >= node.current_term

\* one iteration of _process_messages, with what it does to the target's timer
DeliverTimed ==
    /\ DeliverEffects
    /\ LET m == Head(messages_to_process)
       IN in_progress' = IF ResetsTimer(nodes[m.to_node], m)
                         THEN [in_progress EXCEPT ![m.to_node] = Idle]
                         ELSE in_progress

NextTimers ==
    \/ Start
    \/ \E id \in NodeSet : TimerExpires(id)
    \/ \E id \in NodeSet : TimedOutElection(id)
    \/ \E id \in NodeSet : PeriodicHeartbeat(id)
    \/ DrainQueue
    \/ DeliverTimed
    \/ AppendCommand

SpecTimers == Init /\ [][NextTimers]_vars

----------------------------------------------------------------------------
\* The coordinator's queue with the copy and the clear of _process_messages
\* taken apart, and the senders that append to it meanwhile

\* mutant: send_message appends without taking the coordinator's lock
QueueLockFreeAlways == TRUE

\* _process_messages is not inside "with self.lock" of the coordinator
QueueLockFree == in_progress["processor"].op # "drain"

\* _process_messages: messages_to_process = self.message_queue.copy()
DrainCopy ==
    /\ running
    /\ in_progress["processor"] = Idle
    /\ messages_to_process = <<>>
    /\ message_queue # <<>>
    /\ messages_to_process' = message_queue
    /\ in_progress' = [in_progress EXCEPT !["processor"] = In("drain", None)]
    /\ UNCHANGED <<cluster_nodes, nodes, message_queue, running, fault_calls,
                   commands_accepted, elected, votes_cast>>

\* _process_messages: self.message_queue.clear()
DrainClear ==
    /\ in_progress["processor"].op = "drain"
    /\ message_queue' = <<>>
    /\ in_progress' = [in_progress EXCEPT !["processor"] = Idle]
    /\ UNCHANGED <<cluster_nodes, nodes, messages_to_process, running, fault_calls,
                   commands_accepted, elected, votes_cast>>

NextQueue ==
    \/ Start
    \/ DrainCopy
    \/ DrainClear
    \/ BeginHandle
    \/ FinishHandle
    \/ \E id \in NodeSet : TimeoutCheck(id)
    \/ \E id \in NodeSet : BeginStartElection(id)
    \/ \E id \in NodeSet : QueueLockFree /\ FinishStartElection(id)
    \/ \E id \in NodeSet : HeartbeatCheck(id)
    \/ \E id \in NodeSet : QueueLockFree /\ SendHeartbeat(id)

SpecQueue == Init2 /\ [][NextQueue]_vars

----------------------------------------------------------------------------
\* A cluster that is started, runs its elections and heartbeats, and is stopped

NextStopped ==
    \/ Start
    \/ \E id \in NodeSet : ElectionTimeout(id)
    \/ \E id \in NodeSet : PeriodicHeartbeat(id)
    \/ DrainQueue
    \/ DeliverMessage
    \/ Stop

SpecStopped == Init /\ [][NextStopped]_vars

----------------------------------------------------------------------------
\* Properties

\* a step of _process_messages that hands a message of the given type to its target
Handles(type) ==
    /\ messages_to_process # <<>>
    /\ messages_to_process' = Tail(messages_to_process)
    /\ Head(messages_to_process).type = type
    /\ ~nodes[Head(messages_to_process).to_node].is_failed

NoPartition == \A id \in NodeSet : ~nodes[id].network_partition

\* C1: Election safety.  In a cluster with no partition there are never two
\* different nodes that each became Leader (become_leader) in the same term.
ElectionSafety ==
    NoPartition =>
        \A e1, e2 \in elected : e1[2] = e2[2] => e1[1] = e2[1]

\* C2: One vote per term.  No node sends vote_granted=True responses to two
\* different candidates in the same term.
OneVotePerTerm ==
    \A v1, v2 \in votes_cast : (v1[1] = v2[1] /\ v1[2] = v2[2]) => v1[3] = v2[3]

\* the candidate's last entry, as carried by a vote request, is less up to date
\* than the last entry of log: lower last term, or same last term and lower index
LessUpToDate(data, log) ==
    \/ data.last_log_term < LastLogTerm(log)
    \/ (data.last_log_term = LastLogTerm(log) /\ data.last_log_index < LastLogIndex(log))

\* C3: Log-recency precondition on votes.  handle_vote_request never grants a
\* vote (sends a vote_response) to a candidate whose last log entry, as carried
\* in the request, is less up to date than the receiver's own last log entry.
LogRecencyOnVotes ==
    [][(Handles("vote_request") /\ message_queue' # message_queue)
         => ~LessUpToDate(Head(messages_to_process).data,
                          nodes[Head(messages_to_process).to_node].log)]_vars

\* C4: Log matching.  For every pair of nodes and every index present in both
\* logs, if the two entries at that index have the same term then they have the
\* same command and the two logs are identical up to and including that index.
LogMatching ==
    \A a, b \in NodeSet :
        \A i \in 1..Min(Len(nodes[a].log), Len(nodes[b].log)) :
            nodes[a].log[i].term = nodes[b].log[i].term
                => SubSeq(nodes[a].log, 1, i) = SubSeq(nodes[b].log, 1, i)

\* C5: Commit monotonicity.  No step of the system (election timeout, heartbeat,
\* message handler, append_command, fail_node, recover_node, partition_nodes)
\* makes any node's commit_index smaller than it was before the step.
CommitMonotonic ==
    [][\A id \in NodeSet : nodes'[id].commit_index >= nodes[id].commit_index]_vars

\* C5 witness: a follower has installed entries from an append_entries message
\* (so the commit update of handle_append_entries has run on a non-empty log)
\* after a node was failed and a leader elected.
CommitMonotonicWitness ==
    /\ \E id \in NodeSet : nodes[id].state = "follower" /\ Len(nodes[id].log) > 0
    /\ fault_calls > 0
\* C6 (as claimed): Quorum liveness.  With two of the five nodes failed and
\* three up, a Leader is eventually elected, and an entry the Leader has accepted
\* is eventually committed: some non-failed node's commit_index reaches the
\* entry's index.
QuorumLiveness ==
    /\ (running /\ FailedNodes = MinoritySide) ~> (GetLeader # None)
    /\ \A i \in 0..(MaxCommands - 1) :
           (FailedNodes = MinoritySide /\ GetLeader # None /\ Len(nodes[GetLeader].log) > i)
               ~> (\E id \in NodeSet : ~nodes[id].is_failed /\ nodes[id].commit_index >= i)

MajorityDown == Cardinality(FailedNodes) > Len(cluster_nodes) \div 2

\* C7: Quorum safety.  Once three of the five nodes are failed (and they stay
\* failed), no step raises the commit_index of any node.
QuorumSafety ==
    [][MajorityDown =>
         \A id \in NodeSet : nodes'[id].commit_index <= nodes[id].commit_index]_vars

\* C7 witness: with three nodes down, a Leader that is still up has accepted two
\* commands and the other node that is up has received both of them.
QuorumSafetyWitness ==
    /\ MajorityDown
    /\ GetLeader # None
    /\ Len(nodes[GetLeader].log) = 2
    /\ \E id \in PeerSet(GetLeader) :
           ~nodes[id].is_failed /\ nodes[id].log = nodes[GetLeader].log

LeaderHasMajority ==
    \A id \in NodeSet :
        nodes[id].state = "leader" =>
            /\ 2 * Cardinality(nodes[id].votes_received) > Len(cluster_nodes)
            /\ \A v \in nodes[id].votes_received \ {id} :
                   <<v, nodes[id].current_term, id>> \in votes_cast

StaleVoteResponseStep ==
    /\ Handles("vote_response")
    /\ LET m == Head(messages_to_process)
       IN m.term # nodes[m.to_node].current_term \/ nodes[m.to_node].state # "candidate"

\* C8: Majority required for leadership.  A node in state LEADER holds votes
\* from strictly more than half of all cluster nodes, each (but its own) granted
\* to it in its current term; and a vote_response whose term differs from the
\* receiver's current_term, or that reaches a node that is not a Candidate,
\* changes neither votes_received nor the role.
MajorityLeadership ==
    /\ []LeaderHasMajority
    /\ [][StaleVoteResponseStep =>
            LET id == Head(messages_to_process).to_node
            IN /\ nodes'[id].votes_received = nodes[id].votes_received
               /\ nodes'[id].state = nodes[id].state]_vars

\* C8 witness: a node is Leader on a majority of votes while a vote_response
\* of an earlier term waits for a node that is a Candidate again.
MajorityLeadershipWitness ==
    /\ \E id \in NodeSet : nodes[id].state = "leader"
    /\ messages_to_process # <<>>
    /\ LET m == Head(messages_to_process)
       IN /\ m.type = "vote_response"
          /\ nodes[m.to_node].state = "candidate"
          /\ m.term < nodes[m.to_node].current_term

\* a Leader of term t holds at log position i + 1 (index i) an entry it created
AcceptedAt(t, i) ==
    \E id \in NodeSet :
        /\ nodes[id].state = "leader" /\ ~nodes[id].is_failed
        /\ nodes[id].current_term = t
        /\ Len(nodes[id].log) > i
        /\ nodes[id].log[i + 1].term = t

\* every node that is not failed holds the same entry of term t at index i
ReplicatedAt(t, i) ==
    \E id \in NodeSet :
        /\ Len(nodes[id].log) > i
        /\ nodes[id].log[i + 1].term = t
        /\ \A n \in NodeSet :
               ~nodes[n].is_failed =>
                   Len(nodes[n].log) > i /\ nodes[n].log[i + 1] = nodes[id].log[i + 1]

AcceptedFreshAt(t, i) ==
    \E id \in NodeSet :
        /\ nodes[id].state = "leader" /\ ~nodes[id].is_failed
        /\ nodes[id].current_term = t
        /\ Len(nodes[id].log) > i
        /\ nodes[id].log[i + 1].term = t
        /\ \A p \in PeerSet(id) : DictGet(nodes[id].next_index, p, 0) = 0

Superseded(t) == \E id \in NodeSet : nodes[id].current_term > t

LeaderFailed(id) == nodes[id].is_failed /\ FailedNodes = {id}

HealedUnder(id) ==
    /\ fault_calls > 0
    /\ ~Partitioned
    /\ GetLeader = id
    /\ id \notin MinoritySide
    /\ Len(nodes[id].log) = DemoCommands
    /\ \A k \in 1..Len(nodes[id].log) : nodes[id].log[k].term = nodes[id].current_term

Applies ==
    /\ messages_to_process # <<>>
    /\ messages_to_process' = Tail(messages_to_process)
    /\ ~nodes[Head(messages_to_process).to_node].is_failed

\* C12: Partition isolation.  While partition_nodes(S, True) is in effect, no
\* message whose sender and receiver lie on different sides of the partition
\* is handed to the receiver's handler.
PartitionIsolation ==
    [][Applies =>
          (nodes[Head(messages_to_process).from_node].network_partition
              = nodes[Head(messages_to_process).to_node].network_partition)]_vars

NoLeaderUp == \A id \in NodeSet : ~(nodes[id].state = "leader" /\ ~nodes[id].is_failed)

\* a step of the caller's thread inside append_command: the call of get_leader,
\* or the test at the head of append_entry
AppendCommandStep ==
    \/ in_progress["driver"] = Idle /\ in_progress'["driver"].op = "append_entry_call"
    \/ /\ in_progress["driver"].op = "append_entry_call"
       /\ in_progress'["driver"] # in_progress["driver"]

\* C13: append_command with no leader.  Whenever no node is both Leader and not
\* failed, append_command returns False and changes nothing: no node's log,
\* term or commit_index changes, no command is accepted and no message is
\* enqueued.
AppendCommandNoLeader ==
    [][(NoLeaderUp /\ AppendCommandStep) =>
          /\ in_progress'["driver"] = Idle
          /\ nodes' = nodes
          /\ message_queue' = message_queue
          /\ commands_accepted' = commands_accepted]_vars

\* append_command has chosen a Leader that has lost its office since, and no
\* other node is Leader
AppendCommandNoLeaderWitness ==
    /\ NoLeaderUp
    /\ in_progress["driver"].op = "append_entry_call"
    /\ ~nodes[in_progress["driver"].node].is_failed

\* the call of get_leader inside append_command that finds a Leader
GetLeaderStep ==
    /\ in_progress["driver"] = Idle
    /\ in_progress'["driver"].op = "append_entry_call"

\* C14: get_leader result.  get_leader returns the id of a node whose state is
\* Leader and whose is_failed is False, returns None exactly when there is no
\* such node, and changes no state.
GetLeaderResult ==
    /\ []((GetLeader = None) <=> NoLeaderUp)
    /\ [](GetLeader # None =>
             nodes[GetLeader].state = "leader" /\ ~nodes[GetLeader].is_failed)
    /\ [][GetLeaderStep =>
             /\ nodes[in_progress'["driver"].node].state = "leader"
             /\ ~nodes[in_progress'["driver"].node].is_failed
             /\ nodes' = nodes
             /\ message_queue' = message_queue
             /\ messages_to_process' = messages_to_process
             /\ commands_accepted' = commands_accepted]_vars

\* a failed node still reports Leader, no other node is Leader, and get_leader
\* returns None
GetLeaderResultWitness ==
    /\ \E id \in NodeSet : nodes[id].state = "leader" /\ nodes[id].is_failed
    /\ in_progress["driver"] = Idle
    /\ GetLeader = None

\* a step of _process_messages that takes the next message of the batch
\* while its sender or its receiver is marked failed
TakesMessageOfFailed ==
    /\ messages_to_process # <<>>
    /\ messages_to_process' = Tail(messages_to_process)
    /\ \/ nodes[Head(messages_to_process).from_node].is_failed
       \/ nodes[Head(messages_to_process).to_node].is_failed

\* C15: Messages of failed nodes are dropped.  A message whose sender or whose
\* receiver is marked failed when the coordinator delivers it is not applied
\* to a handler: the receiver's state does not change and nothing is sent in
\* answer.
FailedMessagesDropped ==
    [][TakesMessageOfFailed =>
          /\ nodes'[Head(messages_to_process).to_node]
                = nodes[Head(messages_to_process).to_node]
          /\ message_queue' = message_queue]_vars

\* the messages a step adds to the queue
Enqueued ==
    IF Len(message_queue') > Len(message_queue)
    THEN {message_queue'[k] : k \in (Len(message_queue) + 1)..Len(message_queue')}
    ELSE {}

\* C16: A failed node is inert.  From the step in which fail_node(n) takes
\* effect until recover_node(n), under every interleaving of the node loop,
\* the message processor and the caller, n's current_term, voted_for, log,
\* commit_index and votes_received do not change, its state stays FAILED, and
\* n emits no message.
FailedNodeInert ==
    [][\A id \in NodeSet :
          (nodes[id].is_failed /\ nodes'[id].is_failed) =>
             /\ nodes'[id].current_term = nodes[id].current_term
             /\ nodes'[id].voted_for = nodes[id].voted_for
             /\ nodes'[id].log = nodes[id].log
             /\ nodes'[id].commit_index = nodes[id].commit_index
             /\ nodes'[id].votes_received = nodes[id].votes_received
             /\ nodes[id].state = "failed" => nodes'[id].state = "failed"
             /\ \A m \in Enqueued : m.from_node # id]_vars

\* C17: Crash-recovery keeps durable state.  fail_node(n) followed later by
\* recover_node(n) leaves n's current_term, voted_for, log and commit_index as
\* they were before fail_node: no step from fail_node to the return of
\* recover_node changes them; and recover_node returns with the node a
\* Follower that is not failed.
DurableAcrossCrash ==
    /\ [][\A id \in NodeSet :
             (nodes[id].is_failed \/ nodes'[id].is_failed
                 \/ in_progress["driver"] = In("recover_node", id)) =>
                /\ nodes'[id].current_term = nodes[id].current_term
                /\ nodes'[id].voted_for = nodes[id].voted_for
                /\ nodes'[id].log = nodes[id].log
                /\ nodes'[id].commit_index = nodes[id].commit_index]_vars
    /\ [][\A id \in NodeSet :
             (in_progress["driver"] = In("recover_node", id) /\ in_progress'["driver"] = Idle) =>
                nodes'[id].state = "follower" /\ ~nodes'[id].is_failed]_vars

\* C18: Term monotonicity.  For every node, no step of the system ever
\* decreases current_term.
TermMonotonic ==
    [][\A id \in NodeSet : nodes'[id].current_term >= nodes[id].current_term]_vars

\* a handler is at work on a message of a term lower than its node's
TermMonotonicWitness ==
    /\ in_progress["processor"].op = "handler"
    /\ Head(messages_to_process).type = "append_entries"
    /\ Head(messages_to_process).term < nodes[Head(messages_to_process).to_node].current_term

\* C19: stop() halts delivery.  After RaftCluster.stop() returns, no message
\* of the queue or of the batch being processed is applied to a handler, no
\* node starts an election or sends a heartbeat, and the queued messages are
\* discarded.
StopHaltsDelivery ==
    /\ [][~running =>
             /\ nodes' = nodes
             /\ message_queue' = message_queue
             /\ messages_to_process' = messages_to_process]_vars
    /\ [](~running => message_queue = <<>> /\ messages_to_process = <<>>)

\* the thread is between the first read and the last write of an operation
\* that writes the node's fields
Inside(t, id) ==
    /\ in_progress[t].node = id
    /\ in_progress[t].op \in {"handler", "start_election", "append_entry",
                              "fail_node", "recover_node"}

\* C20: Per-node mutual exclusion.  At no time are two operations on the same
\* node, run by different threads, both between their first read and their
\* last write of that node's mutable fields.
PerNodeMutualExclusion ==
    \A id \in NodeSet :
        \A t1, t2 \in DOMAIN in_progress :
            (Inside(t1, id) /\ Inside(t2, id)) => t1 = t2

\* C21: Each message is consumed exactly once.  Under any interleaving of
\* send_message with the copy and the clear of _process_messages, what the
\* clear removes from the queue is what the copy took into the batch (no
\* message is lost between the two), a batch is taken only when the one before
\* is used up, and each message leaves the batch once, from its head.
ConsumedExactlyOnce ==
    [][/\ (in_progress["processor"].op = "drain" /\ in_progress'["processor"] = Idle) =>
             messages_to_process = message_queue /\ message_queue' = <<>>
       /\ messages_to_process' # messages_to_process =>
             \/ messages_to_process = <<>> /\ messages_to_process' = message_queue
             \/ messages_to_process' = Tail(messages_to_process)
       /\ message_queue' # message_queue =>
             \/ in_progress["processor"].op = "drain"
             \/ /\ Len(message_queue') > Len(message_queue)
                /\ SubSeq(message_queue', 1, Len(message_queue)) = message_queue]_vars

\* a sender is about to append while _process_messages is between its copy and
\* its clear
ConsumedExactlyOnceWitness ==
    /\ in_progress["processor"].op = "drain"
    /\ \E id \in NodeSet : in_progress[id].op \in {"start_election", "send_heartbeat"}

\* the nodes whose log holds at index i the entry the log of id holds there
HoldersOf(id, i) ==
    {n \in NodeSet : Len(nodes[n].log) > i /\ nodes[n].log[i + 1] = nodes[id].log[i + 1]}

\* id is Leader of term t and its entry at index i, of term t, is in the logs of
\* a strict majority of the cluster's nodes
OnMajority(id, t, i) ==
    /\ nodes[id].state = "leader" /\ ~nodes[id].is_failed
    /\ nodes[id].current_term = t
    /\ Len(nodes[id].log) > i
    /\ nodes[id].log[i + 1].term = t
    /\ 2 * Cardinality(HoldersOf(id, i)) > Len(cluster_nodes)

\* C22 (as claimed): Leader commit advancement.  When a Leader's log holds an
\* entry of its current term at index i and the entry is in the logs of a strict
\* majority of the nodes, the Leader's commit_index eventually becomes at least
\* i (as long as it stays Leader of that term); and a Leader's commit_index is
\* never advanced to an index whose entry is not on a majority.
LeaderCommitAdvances ==
    /\ \A id \in Nodes5, t \in 1..MaxTerm, i \in 0..(MaxCommands - 1) :
           OnMajority(id, t, i) ~>
               \/ nodes[id].commit_index >= i
               \/ ~(nodes[id].state = "leader" /\ nodes[id].current_term = t)
    /\ [][\A id \in NodeSet :
             (nodes'[id].state = "leader" /\ nodes'[id].commit_index > nodes[id].commit_index) =>
                 2 * Cardinality({n \in NodeSet :
                        /\ Len(nodes'[n].log) > nodes'[id].commit_index
                        /\ Len(nodes'[id].log) > nodes'[id].commit_index
                        /\ nodes'[n].log[nodes'[id].commit_index + 1]
                             = nodes'[id].log[nodes'[id].commit_index + 1]})
                     > Len(cluster_nodes)]_vars

LeaderUp(id) == nodes[id].state = "leader" /\ ~nodes[id].is_failed

\* C23 (as claimed): Leader bookkeeping on replies.  After a peer has accepted
\* an AppendEntries of the Leader that carries entries, the Leader's
\* match_index[peer] is raised to the last index replicated on that peer (as
\* long as the Leader stays in office).
LeaderBookkeeping ==
    \A id \in Nodes5, p \in Nodes5, i \in 0..(MaxCommands - 1) :
        (LeaderUp(id) /\ p # id /\ Len(nodes[id].log) > i
             /\ nodes[id].log[i + 1].term = nodes[id].current_term
             /\ p \in HoldersOf(id, i))
          ~> (~LeaderUp(id) \/ DictGet(nodes[id].match_index, p, -1) >= i)

\* C24 (as claimed): Catch-up through heartbeats.  If a follower has missed an
\* AppendEntries carrying entries because it was failed, and has recovered
\* while the same Leader stays in office, then with no further append_command
\* the heartbeats alone eventually make the follower's log equal to the
\* Leader's log.
CatchUpThroughHeartbeats ==
    \A id \in Nodes5, p \in Nodes5 :
        (LeaderUp(id) /\ p # id /\ ~nodes[p].is_failed
             /\ fault_calls > 0 /\ commands_accepted = MaxCommands)
          ~> (~LeaderUp(id) \/ nodes[p].log = nodes[id].log)

\* the next message of the batch is an append_entries, and this step takes it
TakesAppendEntries ==
    /\ messages_to_process # <<>>
    /\ Head(messages_to_process).type = "append_entries"
    /\ messages_to_process' = Tail(messages_to_process)

\* the three grounds of rejection, in the claim's words
RejectionGrounds(node, m) ==
    \/ node.is_failed
    \/ m.term < node.current_term
    \/ /\ m.data.prev_log_index >= 0
       /\ ~\E k \in 1..Len(node.log) :
              k = m.data.prev_log_index + 1 /\ node.log[k].term = m.data.prev_log_term

\* C25: AppendEntries rejection.  handle_append_entries returns False exactly
\* when the node is failed, or the message's term is lower than the receiver's
\* current_term, or prev_log_index >= 0 and the receiver's log has no entry at
\* prev_log_index of term prev_log_term; in every rejected case the receiver's
\* log and commit_index are unchanged.
AppendEntriesRejection ==
    [][TakesAppendEntries =>
          LET m == Head(messages_to_process)
          IN /\ ~AppendEntriesReturns(nodes[m.to_node], m) <=> RejectionGrounds(nodes[m.to_node], m)
             /\ RejectionGrounds(nodes[m.to_node], m) =>
                    /\ nodes'[m.to_node].log = nodes[m.to_node].log
                    /\ nodes'[m.to_node].commit_index = nodes[m.to_node].commit_index]_vars

\* the next message of the batch carries entries and is about to be rejected by
\* a node that is up
AppendEntriesRejectionWitness ==
    /\ messages_to_process # <<>>
    /\ Head(messages_to_process).type = "append_entries"
    /\ Len(Head(messages_to_process).data.entries) > 0
    /\ ~nodes[Head(messages_to_process).to_node].is_failed
    /\ RejectionGrounds(nodes[Head(messages_to_process).to_node], Head(messages_to_process))

Max(a, b) == IF a >= b THEN a ELSE b

\* C26: AppendEntries acceptance.  When handle_append_entries accepts a message
\* with non-empty entries, the receiver's log afterwards is its previous log up
\* to prev_log_index followed by the message's entries, and its commit_index
\* afterwards is max(old commit_index, min(leader_commit, len(log) - 1)).
AppendEntriesAcceptance ==
    [][LET m == Head(messages_to_process)
       IN (TakesAppendEntries /\ Len(m.data.entries) > 0
              /\ ~RejectionGrounds(nodes[m.to_node], m)) =>
             /\ nodes'[m.to_node].log
                   = [k \in 1..(m.data.prev_log_index + 1 + Len(m.data.entries)) |->
                         IF k <= m.data.prev_log_index + 1
                         THEN nodes[m.to_node].log[k]
                         ELSE m.data.entries[k - (m.data.prev_log_index + 1)]]
             /\ nodes'[m.to_node].commit_index
                   = Max(nodes[m.to_node].commit_index,
                         Min(m.data.leader_commit, Len(nodes'[m.to_node].log) - 1))]_vars

\* the next message of the batch carries entries that follow an entry the
\* receiver holds, and is about to be accepted
AppendEntriesAcceptanceWitness ==
    /\ messages_to_process # <<>>
    /\ Head(messages_to_process).type = "append_entries"
    /\ Len(Head(messages_to_process).data.entries) > 0
    /\ Head(messages_to_process).data.prev_log_index >= 0
    /\ ~RejectionGrounds(nodes[Head(messages_to_process).to_node], Head(messages_to_process))

\* C27 (as claimed): Tolerance of reordered AppendEntries.  When AppendEntries
\* of one Leader and one term reach a follower in another order than they were
\* sent in, no step removes from the follower's log an entry that is identical
\* to the entry of the Leader of the follower's term at that index.
ReorderTolerance ==
    [][\A p \in NodeSet, id \in NodeSet :
          \A k \in 1..Len(nodes[p].log) :
             (/\ p # id /\ LeaderUp(id)
              /\ nodes'[id] = nodes[id]
              /\ nodes[p].current_term = nodes[id].current_term
              /\ nodes'[p].current_term = nodes[id].current_term
              /\ Len(nodes[id].log) >= k
              /\ nodes[id].log[k] = nodes[p].log[k])
             => (Len(nodes'[p].log) >= k /\ nodes'[p].log[k] = nodes[p].log[k])]_vars

\* C28 (as claimed): Deadline reset on vote grant.  Whenever a node grants a
\* vote in handle_vote_request, or accepts a heartbeat in handle_append_entries,
\* its election timer is reset: after the step the node is before its deadline.
DeadlineReset ==
    [][LET m == Head(messages_to_process)
       IN (\/ Handles("vote_request") /\ VoteGranted(nodes[m.to_node], m)
           \/ Handles("append_entries") /\ AppendEntriesReturns(nodes[m.to_node], m))
          => in_progress'[m.to_node] = Idle]_vars

\* a step of _process_messages that hands a node that is up a message of a
\* term lower than the node's
HandlesStale(types) ==
    /\ Applies
    /\ Head(messages_to_process).type \in types
    /\ Head(messages_to_process).term
          < nodes[Head(messages_to_process).to_node].current_term

\* C29 (as claimed): Stale-term reply.  When a node receives a vote_request or
\* an append_entries whose term is lower than its current_term, it sends back
\* to the sender a response that carries the receiver's current_term.
StaleTermReply ==
    [][HandlesStale({"vote_request", "append_entries"}) =>
          \E r \in Enqueued :
             /\ r.from_node = Head(messages_to_process).to_node
             /\ r.to_node = Head(messages_to_process).from_node
             /\ r.term = nodes[Head(messages_to_process).to_node].current_term]_vars

\* C30: Stale messages change nothing.  Handling a vote_request, vote_response
\* or append_entries whose term is lower than the receiver's current_term
\* leaves the receiver's state, current_term, voted_for, log, commit_index,
\* votes_received and election timer unchanged.
StaleChangesNothing ==
    [][HandlesStale({"vote_request", "vote_response", "append_entries"}) =>
          /\ nodes' = nodes
          /\ in_progress'[Head(messages_to_process).to_node]
                = in_progress[Head(messages_to_process).to_node]]_vars

\* the next message of the batch is of a lower term than its target, which is
\* up; it is a vote_response for a Candidate, or an append_entries that carries
\* entries
StaleChangesNothingWitness ==
    /\ messages_to_process # <<>>
    /\ ~nodes[Head(messages_to_process).to_node].is_failed
    /\ Head(messages_to_process).term < nodes[Head(messages_to_process).to_node].current_term
    /\ \/ /\ Head(messages_to_process).type = "vote_response"
          /\ nodes[Head(messages_to_process).to_node].state = "candidate"
       \/ /\ Head(messages_to_process).type = "append_entries"
          /\ Len(Head(messages_to_process).data.entries) > 0

\* a step of _process_messages that hands a node that is up a vote_request or
\* an append_entries of a term higher than the node's
HandlesNewer ==
    /\ Applies
    /\ Head(messages_to_process).type \in {"vote_request", "append_entries"}
    /\ Head(messages_to_process).term
          > nodes[Head(messages_to_process).to_node].current_term

\* C31: Step-down on a newer term.  After a node that is not failed, in any
\* role, has handled a vote_request or an append_entries of a term greater than
\* its current_term, its current_term is the message's term and its state is
\* Follower.
StepDownOnNewerTerm ==
    [][HandlesNewer =>
          /\ nodes'[Head(messages_to_process).to_node].current_term
                = Head(messages_to_process).term
          /\ nodes'[Head(messages_to_process).to_node].state = "follower"]_vars

\* a Leader that is up is about to handle a vote_request of a higher term
StepDownOnNewerTermWitness ==
    /\ messages_to_process # <<>>
    /\ Head(messages_to_process).type = "vote_request"
    /\ nodes[Head(messages_to_process).to_node].state = "leader"
    /\ ~nodes[Head(messages_to_process).to_node].is_failed
    /\ Head(messages_to_process).term > nodes[Head(messages_to_process).to_node].current_term

\* the step makes node id vote: it grants its vote to a candidate's request, or
\* votes for itself on becoming a candidate
CastsVote(id) ==
    \/ <<id, nodes'[id].current_term, nodes'[id].voted_for>> \in votes_cast' \ votes_cast
    \/ /\ nodes'[id].voted_for = id
       /\ nodes'[id].state = "candidate"
       /\ nodes'[id].votes_received = {id}
       /\ nodes'[id].current_term = nodes[id].current_term + 1

\* C32: voted_for belongs to the current term. voted_for is assigned a node id only
\* by a step that casts a vote in the term the node has after the step, and every
\* step that increases current_term leaves voted_for None or set by a vote cast in
\* the new term, so that a vote that is not None was cast in the present term.
VotedForOfCurrentTerm ==
    [][\A id \in NodeSet :
          /\ nodes'[id].current_term > nodes[id].current_term
                => (nodes'[id].voted_for = None \/ CastsVote(id))
          /\ (nodes'[id].voted_for # nodes[id].voted_for /\ nodes'[id].voted_for # None)
                => CastsVote(id)]_vars

\* a node that voted for one candidate in term 1 has moved to term 2 and holds
\* the vote it cast for another candidate there
VotedForOfCurrentTermWitness ==
    \E id \in NodeSet : \E c1, c2 \in NodeSet \ {id} :
        /\ c1 # c2
        /\ <<id, 1, c1>> \in votes_cast
        /\ <<id, 2, c2>> \in votes_cast
        /\ nodes[id].current_term = 2
        /\ nodes[id].voted_for = c2

\* the step is the body of start_election of node id, past its is_failed test
RunsStartElection(id) ==
    in_progress[id].op = "start_election" /\ in_progress'[id] = Idle

\* the messages the step has put on the queue
Sent == SubSeq(message_queue', Len(message_queue) + 1, Len(message_queue'))

\* C33: start_election effect. When start_election runs on a node it has found up,
\* the node is afterwards CANDIDATE, its current_term is one more than before,
\* voted_for is its own id, votes_received is exactly {own id}, the log and
\* commit_index are unchanged, and the queue has gained exactly one vote_request
\* for every other node of the cluster, each carrying the new term and the last
\* log index and last log term of the node, and nothing else.
StartElectionEffect ==
    [][\A id \in NodeSet : RunsStartElection(id) =>
          /\ nodes'[id].state = "candidate"
          /\ nodes'[id].current_term = nodes[id].current_term + 1
          /\ nodes'[id].voted_for = id
          /\ nodes'[id].votes_received = {id}
          /\ nodes'[id].log = nodes[id].log
          /\ nodes'[id].commit_index = nodes[id].commit_index
          /\ Len(message_queue') = Len(message_queue) + Cardinality(PeerSet(id))
          /\ SubSeq(message_queue', 1, Len(message_queue)) = message_queue
          /\ \A p \in PeerSet(id) :
                Cardinality({k \in 1..Len(Sent) : Sent[k].to_node = p}) = 1
          /\ \A k \in 1..Len(Sent) :
                /\ Sent[k].type = "vote_request"
                /\ Sent[k].from_node = id
                /\ Sent[k].to_node \in PeerSet(id)
                /\ Sent[k].term = nodes[id].current_term + 1
                /\ Sent[k].data.last_log_index = Len(nodes[id].log) - 1
                /\ Sent[k].data.last_log_term =
                       IF nodes[id].log = <<>> THEN 0
                       ELSE nodes[id].log[Len(nodes[id].log)].term]_vars

\* a node with an entry in its log has run start_election: it is Candidate with
\* its own vote only, and its vote_request names the entry as its last
StartElectionEffectWitness ==
    \E id \in NodeSet : \E k \in 1..Len(message_queue) :
        /\ in_progress[id] = Idle
        /\ nodes[id].state = "candidate"
        /\ nodes[id].voted_for = id
        /\ nodes[id].votes_received = {id}
        /\ Len(nodes[id].log) = 1
        /\ message_queue[k].type = "vote_request"
        /\ message_queue[k].from_node = id
        /\ message_queue[k].term = nodes[id].current_term
        /\ message_queue[k].data.last_log_index = 0
        /\ message_queue[k].data.last_log_term = nodes[id].log[1].term

\* the step makes node id Leader
TakesOffice(id) == nodes[id].state # "leader" /\ nodes'[id].state = "leader"

\* C34: Leader initialisation. In the step in which a Candidate becomes Leader,
\* next_index[p] is set to len(log) and match_index[p] to -1 for every peer p,
\* whatever the maps held before, and exactly one append_entries with an empty
\* entries list is sent to every peer.
LeaderInitialisation ==
    [][\A id \in NodeSet : TakesOffice(id) =>
          /\ \A p \in PeerSet(id) :
                /\ p \in DOMAIN nodes'[id].next_index
                /\ nodes'[id].next_index[p] = Len(nodes'[id].log)
                /\ p \in DOMAIN nodes'[id].match_index
                /\ nodes'[id].match_index[p] = -1
          /\ \A p \in PeerSet(id) :
                Cardinality({k \in 1..Len(Sent) :
                                /\ Sent[k].type = "append_entries"
                                /\ Sent[k].from_node = id
                                /\ Sent[k].to_node = p
                                /\ Sent[k].data.entries = <<>>}) = 1]_vars

\* C35: Leader log is append-only. While a node remains in state LEADER, every
\* step leaves its log unchanged or appends exactly one entry at its end: no
\* entry of a Leader's log is removed or replaced before the node has left the
\* Leader role.
LeaderLogAppendOnly ==
    [][\A id \in NodeSet :
          (nodes[id].state = "leader" /\ nodes'[id].state = "leader") =>
             \/ nodes'[id].log = nodes[id].log
             \/ /\ Len(nodes'[id].log) = Len(nodes[id].log) + 1
                /\ SubSeq(nodes'[id].log, 1, Len(nodes[id].log)) = nodes[id].log]_vars

\* a Leader that has appended two entries of its term to its log
LeaderLogAppendOnlyWitness ==
    \E id \in NodeSet :
        /\ nodes[id].state = "leader"
        /\ Len(nodes[id].log) = 2
        /\ \A k \in 1..2 : nodes[id].log[k].term = nodes[id].current_term

\* C36: No Leader-to-Candidate transition. Under every interleaving of the node
\* loop (the unlocked role and timeout check of _run_node, then start_election)
\* with the message processor (handle_vote_response, become_leader), no step
\* turns a node whose state is LEADER into a CANDIDATE: only a Follower or a
\* Candidate starts an election.
NoLeaderToCandidate ==
    [][\A id \in NodeSet :
          ~(nodes[id].state = "leader" /\ nodes'[id].state = "candidate")]_vars

\* the step is append_entry's append to the log, past its role test
AppendsEntry ==
    in_progress["driver"].op = "append_entry" /\ in_progress'["driver"] = Idle

\* C37: Only a leader writes its own log. Under every interleaving of
\* append_entry, which takes no lock, with the message handlers, an entry is
\* appended to a node's log by append_entry only if the node is Leader at the
\* moment of the append, and the term of the entry is a term in which that node
\* was elected Leader.
OnlyLeaderAppends ==
    [][AppendsEntry =>
          /\ nodes[in_progress["driver"].node].state = "leader"
          /\ <<in_progress["driver"].node,
                nodes'[in_progress["driver"].node].log[
                    Len(nodes'[in_progress["driver"].node].log)].term>> \in elected]_vars

\* no thread is inside an operation
Quiescent == \A t \in DOMAIN in_progress : in_progress[t] = Idle

\* C38: Role and failure flag agree. Under every interleaving of fail_node and
\* recover_node, which take no lock, with the locked handlers and
\* start_election, a node's state is FAILED if and only if its is_failed flag
\* is True; the states in which a thread is between two writes of one
\* operation are left out.
RoleAgreesWithFailureFlag ==
    Quiescent => \A id \in NodeSet : (nodes[id].state = "failed") <=> nodes[id].is_failed

\* C39: Entry index equals log position. In every reachable state, for every
\* node and every position i of its log (counted from 0), log[i].index = i,
\* for the entries created by append_entry and for the entries installed by
\* handle_append_entries.
EntryIndexIsPosition ==
    \A id \in NodeSet :
        \A k \in 1..Len(nodes[id].log) : nodes[id].log[k].index = k - 1

\* C40: commit_index points into the log. In every reachable state, starting
\* from the initial state, every node's commit_index is at most len(log) - 1:
\* it never names an index at which the node's own log has no entry.
CommitIndexInLog ==
    \A id \in NodeSet : nodes[id].commit_index <= Len(nodes[id].log) - 1
====
